---- MODULE Spec2Model ----
(***************************************************************************)
(* Model of api-client.ts: the retry runner `run`, its helpers              *)
(* (normalizeSuccess, normalizeError, computeBackoff, isRetriable, delay)   *)
(* and the caller's cancellation signal as seen by the transport; on top    *)
(* of it the client built by withAuth (interceptor hooks, the method        *)
(* surface, upload, download) and the resource helper.                      *)
(*                                                                         *)
(* JavaScript values are modelled as tagged records:                       *)
(*   - numbers that reach arithmetic are [t, v] with t in                  *)
(*     "num" | "nan" | "undefined" | "bigint" | "absent" ("absent" = the   *)
(*     key is missing from the caller's object);                           *)
(*   - payloads, bodies and results are [type, fields, str], an object     *)
(*     being a function from its keys to its values, so that the duck      *)
(*     typing of the normalizers ("status" in payload) is a DOMAIN test.   *)
(***************************************************************************)
EXTENDS Integers, Sequences, FiniteSets, TLC

VARIABLES
  pc,          \* position of the one run call: idle, exchange, wait, done, rejected
  options,     \* the options object run was called with ({ retry })
  retry,       \* run's local `retry`: DEFAULT_RETRY merged with options.retry
  maxAttempts, \* run's local `maxAttempts`
  attempt,     \* run's local `attempt` (counts failed exchanges)
  calls,       \* history: number of times fn() was invoked
  hist,        \* history: outcomes of the exchanges, in order
  waits,       \* history: the durations handed to delay(), in order
  result,      \* the settled promise of run: resolved value or rejection
  aborted,     \* the caller's AbortSignal has fired
  abortAt,     \* history: where the call was when the signal fired
  uIn,         \* input of a helper under test (unit specifications)
  uOut,        \* its output
  hooks,       \* clientOptions: onRequest, onResponse, onError, onAuthError
  args,        \* the caller's arguments: target (url, id or subpath), data,
               \* fieldName, per-call options
  resOp,       \* the resource operation the caller invoked ("none": none)
  method,      \* the method of the surface that was dispatched ("none": none)
  url,         \* the url argument of that method
  callRet,     \* how the caller's call returned: none, threw, promise
  thrown,      \* message of the Error thrown at the caller ("" if none)
  reqData,     \* the request body handed to the transport
  rawHist,     \* history: what the transport produced, before the interceptors
  hookLog,     \* history: the hooks invoked around each exchange
  sent,        \* history: the request config handed to the transport at each exchange
  response,    \* download's local `response`
  final,       \* the settled promise of download
  peer         \* the local state of a second call in flight on the same client

vars == <<pc, options, retry, maxAttempts, attempt, calls, hist, waits, result,
          aborted, abortAt, uIn, uOut, hooks, args, resOp, method, url, callRet,
          thrown, reqData, rawHist, hookLog, sent, response, final, peer>>

clientVars == <<hooks, args, resOp, method, url, callRet, thrown, reqData, rawHist, hookLog,
                sent, response, final, peer>>

runVars == <<pc, options, retry, maxAttempts, attempt, calls, hist, waits, result,
             aborted, abortAt>>

unitVars == <<uIn, uOut>>

(***************************** bounds **************************************)

\* largest retries value a caller passes
MaxRetries == 2

\* callers pass retries down to -NegRetries
NegRetries == 1

\* Math.random() is drawn from {0/RandDen, ..., (RandDen-1)/RandDen}
RandDen == 2

\* computeBackoff is exercised for attempt = 1..MaxBackoffAttempt
MaxBackoffAttempt == 5

(************************* JavaScript values *******************************)

Num(n) == [t |-> "num", v |-> n]

NaN == [t |-> "nan", v |-> 0]

Undef == [t |-> "undefined", v |-> 0]

BigInt(n) == [t |-> "bigint", v |-> n]

Absent == [t |-> "absent", v |-> 0]

Bool(b) == [t |-> "bool", b |-> b]

AbsentBool == [t |-> "absent", b |-> FALSE]

Empty == [k \in {} |-> 0]

Obj(f) == [type |-> "object", fields |-> f, str |-> ""]

Str(s) == [type |-> "string", fields |-> Empty, str |-> s]

Undefined == [type |-> "undefined", fields |-> Empty, str |-> ""]

Null == [type |-> "null", fields |-> Empty, str |-> ""]

\* JavaScript truthiness of a payload value
Truthy(v) == v.type = "object" \/ (v.type = "string" /\ v.str # "")

IsObject(v) == v.type = "object"

HasKey(v, k) == IsObject(v) /\ k \in DOMAIN v.fields

\* v?.[k] for a string-valued key; "" stands for undefined
StrField(v, k) == IF HasKey(v, k) THEN v.fields[k] ELSE ""

Min(a, b) == IF a <= b THEN a ELSE b

Max(a, b) == IF a >= b THEN a ELSE b

\* ToNumber as applied by Math.max to its arguments; "throw" = TypeError
ToNumber(x) ==
  CASE x.t = "num" -> x
    [] x.t = "bigint" -> [t |-> "throw", v |-> 0]
    [] OTHER -> NaN

\* Math.max(0, x)
MathMax0(x) ==
  LET n == ToNumber(x) IN
  IF n.t = "num" THEN Num(Max(0, n.v)) ELSE n

\* mutant: maxAttempts one too large
TwoPlus(n) == IF n.t = "num" THEN Num(2 + n.v) ELSE n

\* 1 + x for an already converted number
OnePlus(n) == IF n.t = "num" THEN Num(1 + n.v) ELSE n

\* a < n and a >= n for a number a and a converted n (comparisons with NaN are false)
LessThan(a, n) == n.t = "num" /\ a < n.v

AtLeast(a, n) == n.t = "num" /\ a >= n.v

(***************************** retry policy ********************************)

DEFAULT_RETRY ==
  [retries |-> Num(1), baseDelayMs |-> Num(300), maxDelayMs |-> Num(2000),
   jitter |-> Bool(TRUE)]

\* options.retry ?? {}
NoRetryOption ==
  [retries |-> Absent, baseDelayMs |-> Absent, maxDelayMs |-> Absent,
   jitter |-> AbsentBool]

RetryOrEmpty(opts) == IF opts.hasRetry THEN opts.retry ELSE NoRetryOption

\* mutant: the two spreads in the other order, the defaults win
MergeRetryDefaultsWin(opts) == DEFAULT_RETRY

\* { ...DEFAULT_RETRY, ...(options.retry ?? {}) }
MergeRetry(opts) ==
  LET o == RetryOrEmpty(opts) IN
  [k \in DOMAIN DEFAULT_RETRY |-> IF o[k].t = "absent" THEN DEFAULT_RETRY[k] ELSE o[k]]

(************************* transport outcomes ******************************)

NoResponse == [present |-> FALSE, status |-> 0, data |-> Undefined]

Response(s, body) == [present |-> TRUE, status |-> s, data |-> body]

AxiosErr(r, m, c) == [response |-> r, message |-> m, code |-> c]

NetworkErr == AxiosErr(NoResponse, "Network Error", "ERR_NETWORK")

\* what the transport rejects with once the signal has fired
AbortErr == AxiosErr(NoResponse, "canceled", "ERR_CANCELED")

\* a non-Axios exception raised inside the exchange function
ThrownErr == AxiosErr(NoResponse, "boom", "")

HttpErr(s, body) ==
  AxiosErr(Response(s, body), "Request failed with status code",
           IF s >= 500 THEN "ERR_BAD_RESPONSE" ELSE "ERR_BAD_REQUEST")

PlainBody == Obj([message |-> "server says no"])

CanonicalErrBody == Obj([status |-> FALSE, data |-> Obj([message |-> "denied"])])

\* an error body {status: false, data} whose data has no message
CanonicalErrBodyNoMessage == Obj([status |-> FALSE, data |-> Obj([detail |-> "row 7"])])

Statuses == {404, 503}

Failures ==
  {NetworkErr, ThrownErr}
    \cup {HttpErr(s, PlainBody) : s \in Statuses}
    \cup {HttpErr(404, CanonicalErrBody), HttpErr(404, CanonicalErrBodyNoMessage),
          HttpErr(503, Undefined), HttpErr(401, PlainBody)}

RawPayload == Obj([id |-> 1])

CanonicalPayload == Obj([status |-> TRUE, data |-> Str("X")])

FalseStatusPayload == Obj([status |-> FALSE, data |-> Str("Y")])

Payloads == {RawPayload, CanonicalPayload, FalseStatusPayload}

Success(p) == [kind |-> "success", payload |-> p]

Failure(e) == [kind |-> "failure", err |-> e]

Status(err) == IF err.response.present THEN err.response.status ELSE 0

(***************************** normalizers *********************************)

ApiResponse(s, d) == Obj([status |-> s, data |-> d])

\* mutant: the pass-through of an already canonical payload lost
normalizeSuccessAlwaysWrap(payload) == ApiResponse(TRUE, payload)

normalizeSuccess(payload) ==
  IF /\ Truthy(payload) /\ IsObject(payload)
     /\ HasKey(payload, "status") /\ HasKey(payload, "data")
     /\ payload.fields.status = TRUE
  THEN payload
  ELSE ApiResponse(TRUE, payload)

\* mutant: the error field preferred to the message field
normalizeErrorErrorFirst(err) ==
  LET r == err.response
      responseData == IF r.present THEN r.data ELSE Undefined
      m1 == StrField(responseData, "message")
      m2 == StrField(responseData, "error")
      message == IF m2 # "" THEN m2
                 ELSE IF m1 # "" THEN m1
                 ELSE IF err.message # "" THEN err.message
                 ELSE "Request failed"
      base == IF Truthy(responseData) /\ IsObject(responseData)
              THEN [k \in DOMAIN responseData.fields \cup {"message"} |->
                      IF k = "message" THEN message ELSE responseData.fields[k]]
              ELSE [message |-> message]
      withStatus == IF r.present /\ r.status # 0
                    THEN [k \in DOMAIN base \cup {"statusCode"} |->
                            IF k = "statusCode" THEN r.status ELSE base[k]]
                    ELSE base
      data == IF err.code # ""
              THEN [k \in DOMAIN withStatus \cup {"code"} |->
                      IF k = "code" THEN err.code ELSE withStatus[k]]
              ELSE withStatus
  IN IF /\ r.present /\ Truthy(r.data) /\ IsObject(r.data)
        /\ HasKey(r.data, "status") /\ HasKey(r.data, "data")
        /\ r.data.fields.status = FALSE
     THEN r.data
     ELSE ApiResponse(FALSE, Obj(data))

\* mutant: the HTTP status not attached
normalizeErrorNoStatusCode(err) ==
  LET r == err.response
      responseData == IF r.present THEN r.data ELSE Undefined
      m1 == StrField(responseData, "message")
      m2 == StrField(responseData, "error")
      message == IF m1 # "" THEN m1
                 ELSE IF m2 # "" THEN m2
                 ELSE IF err.message # "" THEN err.message
                 ELSE "Request failed"
      base == IF Truthy(responseData) /\ IsObject(responseData)
              THEN [k \in DOMAIN responseData.fields \cup {"message"} |->
                      IF k = "message" THEN message ELSE responseData.fields[k]]
              ELSE [message |-> message]
      withStatus == base
      data == IF err.code # ""
              THEN [k \in DOMAIN withStatus \cup {"code"} |->
                      IF k = "code" THEN err.code ELSE withStatus[k]]
              ELSE withStatus
  IN IF /\ r.present /\ Truthy(r.data) /\ IsObject(r.data)
        /\ HasKey(r.data, "status") /\ HasKey(r.data, "data")
        /\ r.data.fields.status = FALSE
     THEN r.data
     ELSE ApiResponse(FALSE, Obj(data))

normalizeError(err) ==
  LET r == err.response
      responseData == IF r.present THEN r.data ELSE Undefined
      m1 == StrField(responseData, "message")
      m2 == StrField(responseData, "error")
      message == IF m1 # "" THEN m1
                 ELSE IF m2 # "" THEN m2
                 ELSE IF err.message # "" THEN err.message
                 ELSE "Request failed"
      base == IF Truthy(responseData) /\ IsObject(responseData)
              THEN [k \in DOMAIN responseData.fields \cup {"message"} |->
                      IF k = "message" THEN message ELSE responseData.fields[k]]
              ELSE [message |-> message]
      withStatus == IF r.present /\ r.status # 0
                    THEN [k \in DOMAIN base \cup {"statusCode"} |->
                            IF k = "statusCode" THEN r.status ELSE base[k]]
                    ELSE base
      data == IF err.code # ""
              THEN [k \in DOMAIN withStatus \cup {"code"} |->
                      IF k = "code" THEN err.code ELSE withStatus[k]]
              ELSE withStatus
  IN IF /\ r.present /\ Truthy(r.data) /\ IsObject(r.data)
        /\ HasKey(r.data, "status") /\ HasKey(r.data, "data")
        /\ r.data.fields.status = FALSE
     THEN r.data
     ELSE ApiResponse(FALSE, Obj(data))

UnexpectedClientError ==
  ApiResponse(FALSE, Obj([message |-> "Unexpected client error"]))

(************************ backoff and retriability **************************)

\* mutant: the jitter added to exp instead of subtracted
JitterAdded(exp, u) == (exp * (10 * RandDen + 3 * u)) \div (10 * RandDen)

\* Math.floor(exp - Math.random() * exp * 0.3), Math.random() = u / RandDen
JitterFloor(exp, u) == (exp * (10 * RandDen - 3 * u)) \div (10 * RandDen)

\* mutant: the exponent off by one (2 ** attempt)
computeBackoffOffByOne(att, policy, u) ==
  LET exp == Min(policy.maxDelayMs.v, policy.baseDelayMs.v * 2 ^ att) IN
  IF ~policy.jitter.b THEN exp
  ELSE Min(policy.maxDelayMs.v, JitterFloor(exp, u))

\* mutant: the cap at maxDelayMs forgotten
computeBackoffNoCap(att, policy, u) ==
  LET exp == policy.baseDelayMs.v * 2 ^ (att - 1) IN
  IF ~policy.jitter.b THEN exp
  ELSE JitterFloor(exp, u)

computeBackoff(att, policy, u) ==
  LET exp == Min(policy.maxDelayMs.v, policy.baseDelayMs.v * 2 ^ (att - 1)) IN
  IF ~policy.jitter.b THEN exp
  ELSE Min(policy.maxDelayMs.v, JitterFloor(exp, u))

\* mutant: failures without a status treated as final
isRetriableStatusOnly(err) ==
  LET status == Status(err) IN
  status >= 500 /\ status < 600

\* mutant: every error status retried
isRetriableFrom400(err) ==
  LET status == Status(err) IN
  IF status = 0 THEN TRUE
  ELSE status >= 400 /\ status < 600

isRetriable(err) ==
  LET status == Status(err) IN
  IF status = 0 THEN TRUE
  ELSE status >= 500 /\ status < 600

(****************************** inputs *************************************)

RetriesValues ==
  {Num(n) : n \in (0 - NegRetries)..MaxRetries} \cup {NaN, Undef, BigInt(2), Absent}

DelayPairs ==
  {<<Absent, Absent>>, <<Num(100), Num(100)>>, <<Num(300), Num(500)>>}

JitterValues == {AbsentBool, Bool(FALSE)}

RetryOptions ==
  {[retries |-> r, baseDelayMs |-> d[1], maxDelayMs |-> d[2], jitter |-> j] :
     r \in RetriesValues, d \in DelayPairs, j \in JitterValues}

\* the second argument of run: { retry } with retry possibly undefined
OptionsValues ==
  {[hasRetry |-> TRUE, retry |-> o] : o \in RetryOptions}
    \cup {[hasRetry |-> FALSE, retry |-> NoRetryOption]}

RandomDraws == 0..(RandDen - 1)

(***************************** run *****************************************)

NoResult == [kind |-> "pending", value |-> Undefined]

Resolved(v) == [kind |-> "resolved", value |-> v]

\* the async function's promise rejects with a TypeError
Rejected == [kind |-> "rejected", value |-> Str("TypeError")]

NoAbort == [phase |-> "none", calls |-> 0, waits |-> 0]

\* while (attempt < maxAttempts): enter the body and invoke fn(), or fall
\* through to the final return
LoopHead(att, maxA) ==
  IF LessThan(att, maxA)
  THEN /\ pc' = "exchange"
       /\ calls' = calls + 1
       /\ result' = result
  ELSE /\ pc' = "done"
       /\ calls' = calls
       /\ result' = Resolved(UnexpectedClientError)

\* run(fn, options) up to its first suspension
Call(opts) ==
  /\ pc = "idle"
  /\ options' = opts
  /\ retry' = MergeRetry(opts)
  /\ attempt' = 0
  /\ LET m == MathMax0(MergeRetry(opts).retries) IN
     IF m.t = "throw"
     THEN /\ pc' = "rejected"
          /\ result' = Rejected
          /\ UNCHANGED <<maxAttempts, calls>>
     ELSE /\ maxAttempts' = OnePlus(m)
          /\ LoopHead(0, OnePlus(m))
  /\ UNCHANGED <<hist, waits, aborted, abortAt, unitVars>>

\* mutant: the return in the try block lost, the loop goes round again
ExchangeSucceedsNoReturn(p) ==
  /\ pc = "exchange"
  /\ ~aborted
  /\ hist' = Append(hist, Success(p))
  /\ pc' = "exchange"
  /\ calls' = calls + 1
  /\ UNCHANGED <<options, retry, maxAttempts, attempt, waits, result, aborted,
                 abortAt, unitVars>>

\* await fn() resolves: return normalizeSuccess(res)
ExchangeSucceeds(p) ==
  /\ pc = "exchange"
  /\ ~aborted
  /\ hist' = Append(hist, Success(p))
  /\ result' = Resolved(normalizeSuccess(p))
  /\ pc' = "done"
  /\ UNCHANGED <<options, retry, maxAttempts, attempt, calls, waits, aborted,
                 abortAt, unitVars>>

\* mutant: the final Failure built from the first failure of the call
ExchangeFailsFirstError(err, u) ==
  /\ pc = "exchange"
  /\ IF aborted THEN err = AbortErr ELSE err \in Failures
  /\ hist' = Append(hist, Failure(err))
  /\ attempt' = attempt + 1
  /\ IF AtLeast(attempt + 1, maxAttempts) \/ ~isRetriable(err)
     THEN /\ result' = Resolved(normalizeError(IF hist = <<>> THEN err ELSE hist[1].err))
          /\ pc' = "done"
          /\ waits' = waits
     ELSE /\ waits' = Append(waits, computeBackoff(attempt + 1, retry, u))
          /\ pc' = "wait"
          /\ result' = result
  /\ UNCHANGED <<options, retry, maxAttempts, calls, aborted, abortAt, unitVars>>

\* mutant: the final failure thrown again instead of returned
ExchangeFailsRethrow(err, u) ==
  /\ pc = "exchange"
  /\ IF aborted THEN err = AbortErr ELSE err \in Failures
  /\ hist' = Append(hist, Failure(err))
  /\ attempt' = attempt + 1
  /\ IF AtLeast(attempt + 1, maxAttempts) \/ ~isRetriable(err)
     THEN /\ result' = Rejected
          /\ pc' = "rejected"
          /\ waits' = waits
     ELSE /\ waits' = Append(waits, computeBackoff(attempt + 1, retry, u))
          /\ pc' = "wait"
          /\ result' = result
  /\ UNCHANGED <<options, retry, maxAttempts, calls, aborted, abortAt, unitVars>>

\* await fn() rejects or fn throws: the catch block
ExchangeFails(err, u) ==
  /\ pc = "exchange"
  /\ IF aborted THEN err = AbortErr ELSE err \in Failures
  /\ hist' = Append(hist, Failure(err))
  /\ attempt' = attempt + 1
  /\ IF AtLeast(attempt + 1, maxAttempts) \/ ~isRetriable(err)
     THEN /\ result' = Resolved(normalizeError(err))
          /\ pc' = "done"
          /\ waits' = waits
     ELSE /\ waits' = Append(waits, computeBackoff(attempt + 1, retry, u))
          /\ pc' = "wait"
          /\ result' = result
  /\ UNCHANGED <<options, retry, maxAttempts, calls, aborted, abortAt, unitVars>>

\* the timer of delay(wait) fires; control returns to the loop head
DelayElapsed ==
  /\ pc = "wait"
  /\ LoopHead(attempt, maxAttempts)
  /\ UNCHANGED <<options, retry, maxAttempts, attempt, hist, waits, aborted,
                 abortAt, unitVars>>

\* the caller's AbortController.abort(); run itself never reads the signal
Abort ==
  /\ ~aborted
  /\ pc \in {"idle", "exchange", "wait"}
  /\ aborted' = TRUE
  /\ abortAt' = [phase |-> pc, calls |-> calls, waits |-> Len(waits)]
  /\ UNCHANGED <<pc, options, retry, maxAttempts, attempt, calls, hist, waits,
                 result, unitVars>>

NoUnit == [fn |-> "none", att |-> 0, policy |-> DEFAULT_RETRY, u |-> 0]

NoHooks == [onRequest |-> "none", onResponse |-> "none", onError |-> "none",
            onAuthError |-> "none"]

NoUrl == [type |-> "undefined", chars |-> <<>>, n |-> 0]

\* per-call options with nothing supplied: {} stands for an absent object,
\* "" and 0 for undefined
NoCallOptions ==
  [params |-> {}, headers |-> {}, signal |-> "", timeout |-> 0, responseType |-> ""]

NoArgs == [target |-> NoUrl, data |-> Undefined, fieldName |-> "", opts |-> NoCallOptions]

\* headers["content-disposition"] of a response that carries no such header
NoHeader == [type |-> "absent", chars |-> <<>>]

NoResponseYet == [assigned |-> FALSE, data |-> Undefined, headers |-> NoHeader]

\* the local state of a call that has not been made yet
NoPeer ==
  [pc |-> "idle", options |-> [hasRetry |-> FALSE, retry |-> NoRetryOption],
   retry |-> DEFAULT_RETRY, maxAttempts |-> Num(0), attempt |-> 0, calls |-> 0,
   hist |-> <<>>, waits |-> <<>>, result |-> NoResult, args |-> NoArgs, resOp |-> "none",
   method |-> "none", url |-> NoUrl, callRet |-> "none", thrown |-> "",
   reqData |-> Undefined, rawHist |-> <<>>, hookLog |-> <<>>, sent |-> <<>>,
   response |-> NoResponseYet, final |-> NoResult]

\* no client call is under way
ClientUnused ==
  /\ hooks = NoHooks
  /\ args = NoArgs
  /\ resOp = "none"
  /\ method = "none"
  /\ url = NoUrl
  /\ callRet = "none"
  /\ thrown = ""
  /\ reqData = Undefined
  /\ rawHist = <<>>
  /\ hookLog = <<>>
  /\ sent = <<>>
  /\ response = NoResponseYet
  /\ final = NoResult
  /\ peer = NoPeer

NoOut == [done |-> FALSE, value |-> 0]

Init ==
  /\ pc = "idle"
  /\ options = [hasRetry |-> FALSE, retry |-> NoRetryOption]
  /\ retry = DEFAULT_RETRY
  /\ maxAttempts = Num(0)
  /\ attempt = 0
  /\ calls = 0
  /\ hist = <<>>
  /\ waits = <<>>
  /\ result = NoResult
  /\ aborted = FALSE
  /\ abortAt = NoAbort
  /\ uIn = NoUnit
  /\ uOut = NoOut
  /\ ClientUnused

\* run called on its own, with an opaque exchange function
Next ==
  \/ \E opts \in OptionsValues : Call(opts) /\ UNCHANGED clientVars
  \/ \E p \in Payloads : ExchangeSucceeds(p) /\ UNCHANGED clientVars
  \/ \E err \in Failures \cup {AbortErr}, u \in RandomDraws :
       ExchangeFails(err, u) /\ UNCHANGED clientVars
  \/ DelayElapsed /\ UNCHANGED clientVars
  \/ Abort /\ UNCHANGED clientVars

Spec == Init /\ [][Next]_vars

\* the exchange in flight settles: the promise of fn() resolves or rejects
ExchangeSettles ==
  \/ \E p \in Payloads : ExchangeSucceeds(p) /\ UNCHANGED clientVars
  \/ \E err \in Failures \cup {AbortErr}, u \in RandomDraws :
       ExchangeFails(err, u) /\ UNCHANGED clientVars

\* the timer of the backoff wait fires
WaitCompletes == DelayElapsed /\ UNCHANGED clientVars

\* run under a transport that answers every exchange and timers that fire
FairSpec == Spec /\ WF_vars(ExchangeSettles) /\ WF_vars(WaitCompletes)

(*********************** strings and call arguments *************************)

\* a JavaScript string argument as the sequence of its characters
UStr(c) == [type |-> "string", chars |-> c, n |-> 0]

UNum(k) == [type |-> "number", chars |-> <<>>, n |-> k]

UNull == [type |-> "null", chars |-> <<>>, n |-> 0]

Whitespace == {" ", "\t", "\n"}

RECURSIVE TrimStart(_)
TrimStart(c) ==
  IF c # <<>> /\ Head(c) \in Whitespace THEN TrimStart(Tail(c)) ELSE c

RECURSIVE TrimEnd(_)
TrimEnd(c) ==
  IF c # <<>> /\ c[Len(c)] \in Whitespace THEN TrimEnd(SubSeq(c, 1, Len(c) - 1)) ELSE c

\* String.prototype.trim
Trim(c) == TrimEnd(TrimStart(c))

\* truthiness of an argument: "", 0, null and undefined are falsy
TruthyArg(v) ==
  CASE v.type = "string" -> v.chars # <<>>
    [] v.type = "number" -> v.n # 0
    [] OTHER -> FALSE

Digit(d) == <<"0", "1", "2", "3", "4", "5", "6", "7", "8", "9">>[d + 1]

RECURSIVE Digits(_)
Digits(k) == IF k < 10 THEN <<Digit(k)>> ELSE Digits(k \div 10) \o <<Digit(k % 10)>>

\* `${v}` for a string or a non-negative integer
Interpolate(v) == IF v.type = "number" THEN Digits(v.n) ELSE v.chars

\* the message of the Error a validator throws; "" when it returns
UrlError == "URL must be a non-empty string"

validateUrl(u) ==
  IF ~TruthyArg(u) \/ u.type # "string" \/ Trim(u.chars) = <<>> THEN UrlError ELSE ""

IdError == "Resource ID must be provided and non-empty"

\* mutant: the empty string accepted as an id
validateIdNullOnly(id) ==
  IF id.type = "null" \/ id.type = "undefined" THEN IdError ELSE ""

validateId(id) ==
  IF id.type = "null" \/ id.type = "undefined" \/ (id.type = "string" /\ id.chars = <<>>)
  THEN IdError ELSE ""

SubpathError == "Subpath must be a non-empty string"

validateSubpath(sp) ==
  IF ~TruthyArg(sp) \/ sp.type # "string" \/ Trim(sp.chars) = <<>> THEN SubpathError ELSE ""

UsersUrl == UStr(<<"/", "u", "s", "e", "r", "s">>)

EmptyUrl == UStr(<<>>)

BlankUrl == UStr(<<" ", " ">>)

UrlArgs == {UsersUrl, EmptyUrl, BlankUrl, UNull, NoUrl, UNum(7)}

IdArgs == {UStr(<<"4", "2">>), UNum(7), UNum(0), UStr(<<>>), UStr(<<" ">>), UNull, NoUrl}

SubpathArgs == {UStr(<<"s", "t", "a", "t", "s">>), UStr(<<>>), BlankUrl, UNum(7), NoUrl}

\* the payload argument of post, put, patch, create, update, action
PayloadArgs == {Undefined, Null, RawPayload}

(************************** upload: form data *******************************)

JNum(k) == [type |-> "number", n |-> k, s |-> "", b |-> FALSE]

JStr(t) == [type |-> "string", n |-> 0, s |-> t, b |-> FALSE]

JBool(x) == [type |-> "boolean", n |-> 0, s |-> "", b |-> x]

JNull == [type |-> "null", n |-> 0, s |-> "", b |-> FALSE]

JUndefined == [type |-> "undefined", n |-> 0, s |-> "", b |-> FALSE]

JObject == [type |-> "object", n |-> 0, s |-> "", b |-> FALSE]

RECURSIVE NumToString(_)
NumToString(k) ==
  IF k < 0 THEN "-" \o NumToString(0 - k)
  ELSE IF k < 10 THEN Digit(k)
  ELSE NumToString(k \div 10) \o Digit(k % 10)

\* String(value)
ToStr(v) ==
  CASE v.type = "number" -> NumToString(v.n)
    [] v.type = "string" -> v.s
    [] v.type = "boolean" -> (IF v.b THEN "true" ELSE "false")
    [] v.type = "null" -> "null"
    [] v.type = "undefined" -> "undefined"
    [] OTHER -> "[object Object]"

\* one entry of a FormData: a string value or a Blob
Field(name, kind, text) == [name |-> name, kind |-> kind, text |-> text]

FormData(entries) == [type |-> "formdata", entries |-> entries]

\* the data argument of upload; a plain object is the sequence of its entries
FormDataArg(entries) == [type |-> "formdata", entries |-> entries, text |-> ""]

BlobArg == [type |-> "blob", entries |-> <<>>, text |-> ""]

MappingArg(entries) == [type |-> "object", entries |-> entries, text |-> ""]

StringArg(t) == [type |-> "string", entries |-> <<>>, text |-> t]

NullArg == [type |-> "null", entries |-> <<>>, text |-> ""]

UploadError == "Invalid upload data type. Expected FormData, Blob, File, or object."

\* mutant: only null values skipped
AppendEntriesKeepUndefined(entries) ==
  LET kept == SelectSeq(entries, LAMBDA e : e[2].type # "null") IN
  [i \in 1..Len(kept) |-> Field(kept[i][1], "string", ToStr(kept[i][2]))]

\* Object.entries(data).forEach(...): append String(value) unless null or undefined
AppendEntries(entries) ==
  LET kept == SelectSeq(entries, LAMBDA e : e[2].type # "null" /\ e[2].type # "undefined") IN
  [i \in 1..Len(kept) |-> Field(kept[i][1], "string", ToStr(kept[i][2]))]

\* the FormData upload builds from its data argument; "throw" for an invalid one
BuildFormData(data, fieldName) ==
  CASE data.type = "formdata" -> FormData(data.entries)
    [] data.type = "blob" -> FormData(<<Field(fieldName, "blob", "")>>)
    [] data.type = "object" -> FormData(AppendEntries(data.entries))
    [] OTHER -> [type |-> "throw", entries |-> <<>>]

SpecMapping ==
  MappingArg(<<<<"a", JNum(1)>>, <<"b", JNull>>, <<"c", JStr("x")>>>>)

MixedMapping ==
  MappingArg(<<<<"n", JNum(0 - 12)>>, <<"u", JUndefined>>, <<"e", JStr("")>>,
               <<"t", JBool(TRUE)>>, <<"o", JObject>>, <<"z", JNull>>>>)

UploadArgs ==
  {SpecMapping, MixedMapping, MappingArg(<<>>), BlobArg,
   FormDataArg(<<Field("f", "string", "v")>>), StringArg("abc"), NullArg}

\* options.fieldName: "" stands for not supplied
FieldNames == {"", "document"}

(****************************** interceptors ********************************)

HookConfigs ==
  {NoHooks,
   [onRequest |-> "ok", onResponse |-> "ok", onError |-> "ok", onAuthError |-> "ok"],
   [onRequest |-> "ok", onResponse |-> "ok", onError |-> "ok", onAuthError |-> "throws"],
   [onRequest |-> "throws", onResponse |-> "throws", onError |-> "throws",
    onAuthError |-> "none"],
   [onRequest |-> "none", onResponse |-> "throws", onError |-> "throws",
    onAuthError |-> "throws"]}

\* request interceptor: the hooks it invokes
RequestInterceptor(h) == IF h.onRequest # "none" THEN <<"onRequest">> ELSE <<>>

\* response interceptor, fulfilled side: invokes onResponse, returns the response
ResponseInterceptor(res, h) ==
  [invoked |-> IF h.onResponse # "none" THEN <<"onResponse">> ELSE <<>>,
   returns |-> res]

\* mutant: the error interceptor without its try/catch
ErrorInterceptorNoCatch(err, h) ==
  LET auth == Status(err) \in {401, 403} /\ h.onAuthError # "none"
      authThrows == auth /\ h.onAuthError = "throws"
      errorRuns == ~authThrows /\ h.onError # "none"
  IN [invoked |-> (IF auth THEN <<"onAuthError">> ELSE <<>>)
                    \o (IF errorRuns THEN <<"onError">> ELSE <<>>),
      rejects |-> IF authThrows \/ (errorRuns /\ h.onError = "throws")
                  THEN ThrownErr ELSE err]

\* response interceptor, rejected side: one try block around onAuthError and
\* onError, then Promise.reject(error)
ErrorInterceptor(err, h) ==
  LET auth == Status(err) \in {401, 403} /\ h.onAuthError # "none"
      authThrows == auth /\ h.onAuthError = "throws"
      errorRuns == ~authThrows /\ h.onError # "none"
  IN [invoked |-> (IF auth THEN <<"onAuthError">> ELSE <<>>)
                    \o (IF errorRuns THEN <<"onError">> ELSE <<>>),
      rejects |-> err]

(*************************** download: file name ****************************)

HeaderStr(c) == [type |-> "string", chars |-> c]

\* a header value that is not a string (a repeated header arrives as an array)
HeaderArray == [type |-> "array", chars |-> <<>>]

QuotedHeader == HeaderStr(<<"a", "t", "t", "a", "c", "h", "m", "e", "n", "t", ";", " ", "f", "i", "l", "e", "n", "a", "m", "e", "=", "\"", "r", "e", "p", "o", "r", "t", ".", "p", "d", "f", "\"">>)

UnquotedHeader == HeaderStr(<<"a", "t", "t", "a", "c", "h", "m", "e", "n", "t", ";", " ", "f", "i", "l", "e", "n", "a", "m", "e", "=", "r", "e", "p", "o", "r", "t", ".", "p", "d", "f">>)

ParamsAfterHeader == HeaderStr(<<"a", "t", "t", "a", "c", "h", "m", "e", "n", "t", ";", " ", "f", "i", "l", "e", "n", "a", "m", "e", "=", "r", "e", "p", "o", "r", "t", ".", "p", "d", "f", ";", " ", "s", "i", "z", "e", "=", "3">>)

InlineHeader == HeaderStr(<<"i", "n", "l", "i", "n", "e">>)

DispositionHeaders ==
  {NoHeader, QuotedHeader, UnquotedHeader, ParamsAfterHeader, InlineHeader,
   HeaderStr(<<>>), HeaderArray}

BlobPayload == Obj([size |-> 3])

NoFilename == [defined |-> FALSE, chars |-> <<>>]

Filename(c) == [defined |-> TRUE, chars |-> c]

NoMatch == [ok |-> FALSE, group |-> <<>>]

\* the least k >= i with h[k] in S, 0 when there is none
RECURSIVE FirstIn(_, _, _)
FirstIn(h, i, S) ==
  IF i > Len(h) THEN 0
  ELSE IF h[i] \in S THEN i
  ELSE FirstIn(h, i + 1, S)

\* /filename[^;=\n]*=((['"]).*?\2|[^;\n]*)/ tried at position i: capture group 1
MatchAt(h, i) ==
  IF i + 7 > Len(h) \/ SubSeq(h, i, i + 7) # <<"f", "i", "l", "e", "n", "a", "m", "e">>
  THEN NoMatch
  ELSE LET j == FirstIn(h, i + 8, {";", "=", "\n"}) IN
       IF j = 0 \/ h[j] # "=" THEN NoMatch
       ELSE LET q == IF j + 1 <= Len(h) /\ h[j + 1] \in {"'", "\""} THEN j + 1 ELSE 0
                k == IF q = 0 THEN 0 ELSE FirstIn(h, q + 1, {h[q], "\n"})
                e == FirstIn(h, j + 1, {";", "\n"})
            IN IF q # 0 /\ k # 0 /\ h[k] = h[q]
               THEN [ok |-> TRUE, group |-> SubSeq(h, q, k)]
               ELSE [ok |-> TRUE,
                     group |-> SubSeq(h, j + 1, IF e = 0 THEN Len(h) ELSE e - 1)]

\* String.prototype.match without the g flag: the leftmost match
RECURSIVE MatchFrom(_, _)
MatchFrom(h, i) ==
  IF i > Len(h) THEN NoMatch
  ELSE IF MatchAt(h, i).ok THEN MatchAt(h, i)
  ELSE MatchFrom(h, i + 1)

\* .replace(/['"]/g, "")
StripQuotes(c) == SelectSeq(c, LAMBDA x : x \notin {"'", "\""})

\* mutant: the captured group kept with its quotes
ExtractFilenameKeepQuotes(header) ==
  IF header.type = "string" /\ header.chars # <<>>
       /\ MatchFrom(header.chars, 1).ok /\ MatchFrom(header.chars, 1).group # <<>>
  THEN Filename(MatchFrom(header.chars, 1).group)
  ELSE NoFilename

\* the try block of download: a header that is falsy, does not match, or has
\* no match method (the TypeError is caught) leaves filename undefined
ExtractFilename(header) ==
  IF header.type = "string" /\ header.chars # <<>>
       /\ MatchFrom(header.chars, 1).ok /\ MatchFrom(header.chars, 1).group # <<>>
  THEN Filename(StripQuotes(MatchFrom(header.chars, 1).group))
  ELSE NoFilename

(************************* the client: withAuth, resource *******************)

\* per-call retry options a client call is made with
ClientOptions ==
  {[hasRetry |-> FALSE, retry |-> NoRetryOption],
   [hasRetry |-> TRUE,
    retry |-> [retries |-> Num(0), baseDelayMs |-> Absent, maxDelayMs |-> Absent,
               jitter |-> AbsentBool]],
   [hasRetry |-> TRUE,
    retry |-> [retries |-> Num(MaxRetries), baseDelayMs |-> Num(100),
               maxDelayMs |-> Num(100), jitter |-> Bool(FALSE)]],
   [hasRetry |-> TRUE,
    retry |-> [retries |-> BigInt(2), baseDelayMs |-> Absent, maxDelayMs |-> Absent,
               jitter |-> AbsentBool]]}

ClientFailures ==
  {NetworkErr, HttpErr(401, PlainBody), HttpErr(404, CanonicalErrBody),
   HttpErr(503, PlainBody)}

ClientPayloads == {RawPayload, CanonicalPayload}

PlainMethods == {"getMany", "getOne", "post", "put", "patch", "remove"}

\* per-call options with every field supplied
FullCallOptions ==
  [params |-> {"page=1"}, headers |-> {"x-trace: 7"}, signal |-> "signal-1",
   timeout |-> 5000, responseType |-> "text"]

CallOptionsValues == {NoCallOptions, FullCallOptions}

\* the config the exchange closure of method m hands to the transport, built
\* from the per-call options it captured
TransportConfig(m, co) ==
  CASE m \in {"getMany", "getOne", "remove"} ->
         [params |-> co.params, headers |-> co.headers, signal |-> co.signal,
          timeout |-> co.timeout, responseType |-> co.responseType]
    [] m \in {"post", "put", "patch"} ->
         [params |-> {}, headers |-> co.headers, signal |-> co.signal,
          timeout |-> co.timeout, responseType |-> co.responseType]
    [] m = "upload" ->
         [params |-> {}, headers |-> co.headers \cup {"Content-Type: multipart/form-data"},
          signal |-> co.signal, timeout |-> co.timeout, responseType |-> ""]
    [] OTHER ->
         [params |-> co.params, headers |-> co.headers, signal |-> co.signal,
          timeout |-> co.timeout, responseType |-> "blob"]

\* the payloads a method takes: getMany, getOne and remove have no payload
PayloadsOf(m) == IF m \in {"post", "put", "patch"} THEN PayloadArgs ELSE {Undefined}

\* the id or subpath a resource operation takes: list and create have none
TargetsOf(op) ==
  CASE op \in {"list", "create"} -> {NoUrl}
    [] op = "action" -> SubpathArgs
    [] OTHER -> IdArgs

ResourcePayloads(op) ==
  IF op \in {"create", "update", "patch", "action"} THEN PayloadArgs ELSE {Undefined}

ResourceOps == {"list", "get", "create", "update", "patch", "remove", "action"}

\* the promise an async function returns when its body throws
RejectedWith(msg) == [kind |-> "rejected", value |-> Str(msg)]

\* the synchronous throw of a call: nothing else happens
Throw(msg) ==
  /\ callRet' = "threw"
  /\ thrown' = msg
  /\ UNCHANGED <<runVars, unitVars, reqData, final>>

\* getMany, getOne, post, put, patch, remove: validateUrl, then run
Request(m, u, payload, opts) ==
  /\ method' = m
  /\ url' = u
  /\ IF validateUrl(u) # ""
     THEN Throw(validateUrl(u))
     ELSE /\ callRet' = "promise"
          /\ thrown' = ""
          /\ reqData' = IF m \in {"post", "put", "patch"} THEN payload ELSE Undefined
          /\ final' = final
          /\ Call(opts)

MethodCall(m, u, payload, opts, co) ==
  /\ callRet = "none"
  /\ resOp' = "none"
  /\ args' = [target |-> u, data |-> payload, fieldName |-> "", opts |-> co]
  /\ Request(m, u, payload, opts)
  /\ UNCHANGED <<hooks, rawHist, hookLog, sent, response>>

\* upload: validateUrl, build the FormData or throw, then run
UploadCall(u, data, fieldName, opts, co) ==
  /\ callRet = "none"
  /\ resOp' = "none"
  /\ args' = [target |-> u, data |-> data, fieldName |-> fieldName, opts |-> co]
  /\ method' = "upload"
  /\ url' = u
  /\ LET formData == BuildFormData(data, IF fieldName = "" THEN "file" ELSE fieldName) IN
     IF validateUrl(u) # "" THEN Throw(validateUrl(u))
     ELSE IF formData.type = "throw" THEN Throw(UploadError)
     ELSE /\ callRet' = "promise"
          /\ thrown' = ""
          /\ reqData' = formData
          /\ final' = final
          /\ Call(opts)
  /\ UNCHANGED <<hooks, rawHist, hookLog, sent, response>>

\* download, an async function: a throw of validateUrl rejects the returned
\* promise; otherwise it suspends at await run(...)
DownloadCall(u, opts, co) ==
  /\ callRet = "none"
  /\ resOp' = "none"
  /\ args' = [target |-> u, data |-> Undefined, fieldName |-> "", opts |-> co]
  /\ method' = "download"
  /\ url' = u
  /\ callRet' = "promise"
  /\ thrown' = ""
  /\ reqData' = Undefined
  /\ IF validateUrl(u) # ""
     THEN /\ final' = RejectedWith(validateUrl(u))
          /\ UNCHANGED <<runVars, unitVars>>
     ELSE /\ final' = final
          /\ Call(opts)
  /\ UNCHANGED <<hooks, rawHist, hookLog, sent, response>>

\* the rest of download once run has settled
DownloadResume ==
  /\ method = "download"
  /\ final = NoResult
  /\ pc \in {"done", "rejected"}
  /\ final' =
       IF pc = "rejected" THEN result
       ELSE IF ~result.value.fields.status THEN result
       ELSE Resolved(ApiResponse(TRUE,
              Obj([blob |-> result.value.fields.data,
                   filename |-> IF response.assigned
                                THEN ExtractFilename(response.headers)
                                ELSE NoFilename])))
  /\ UNCHANGED <<runVars, unitVars, hooks, args, resOp, method, url, callRet, thrown,
                 reqData, rawHist, hookLog, sent, response>>

\* the resource is built on this base url
BaseUrl == UsersUrl

\* `${baseUrl}/${id}`
JoinUrl(base, part) == UStr(base.chars \o <<"/">> \o Interpolate(part))

ResourceValidation(op, target) ==
  CASE op \in {"get", "update", "patch", "remove"} -> validateId(target)
    [] op = "action" -> validateSubpath(target)
    [] OTHER -> ""

\* mutant: action chooses post by the truthiness of the payload
ResourceMethodTruthy(op, payload) ==
  CASE op = "list" -> "getMany"
    [] op = "get" -> "getOne"
    [] op = "create" -> "post"
    [] op = "update" -> "put"
    [] op = "patch" -> "patch"
    [] op = "remove" -> "remove"
    [] OTHER -> IF Truthy(payload) THEN "post" ELSE "getOne"

ResourceMethod(op, payload) ==
  CASE op = "list" -> "getMany"
    [] op = "get" -> "getOne"
    [] op = "create" -> "post"
    [] op = "update" -> "put"
    [] op = "patch" -> "patch"
    [] op = "remove" -> "remove"
    [] OTHER -> IF payload # Undefined THEN "post" ELSE "getOne"

\* list, get, create, update, patch, remove, action of resource(BaseUrl)
ResourceCall(op, target, payload, opts, co) ==
  /\ callRet = "none"
  /\ resOp' = op
  /\ args' = [target |-> target, data |-> payload, fieldName |-> "", opts |-> co]
  /\ IF ResourceValidation(op, target) # ""
     THEN /\ Throw(ResourceValidation(op, target))
          /\ UNCHANGED <<method, url>>
     ELSE Request(ResourceMethod(op, payload),
                  IF op \in {"list", "create"} THEN BaseUrl ELSE JoinUrl(BaseUrl, target),
                  payload, opts)
  /\ UNCHANGED <<hooks, rawHist, hookLog, sent, response>>

\* the transport answers with a 2xx response; the interceptors run around it
ClientExchangeSucceeds(p, header) ==
  /\ callRet = "promise"
  /\ IF method = "download"
     THEN p = BlobPayload
     ELSE p \in ClientPayloads /\ header = NoHeader
  /\ LET ri == ResponseInterceptor([data |-> p, headers |-> header], hooks) IN
     /\ ExchangeSucceeds(ri.returns.data)
     /\ hookLog' = Append(hookLog, RequestInterceptor(hooks) \o ri.invoked)
     /\ response' = IF method = "download"
                    THEN [assigned |-> TRUE, data |-> ri.returns.data,
                          headers |-> ri.returns.headers]
                    ELSE response
  /\ rawHist' = Append(rawHist, Success(p))
  /\ sent' = Append(sent, TransportConfig(method, args.opts))
  /\ UNCHANGED <<hooks, args, resOp, method, url, callRet, thrown, reqData, final>>

\* mutant: the response of a failed attempt is captured too
ClientExchangeFailsCapturing(err, u) ==
  /\ callRet = "promise"
  /\ LET ei == ErrorInterceptor(err, hooks) IN
     /\ ExchangeFails(ei.rejects, u)
     /\ hookLog' = Append(hookLog, RequestInterceptor(hooks) \o ei.invoked)
  /\ rawHist' = Append(rawHist, Failure(err))
  /\ sent' = Append(sent, TransportConfig(method, args.opts))
  /\ response' = IF method = "download"
                  THEN [assigned |-> TRUE, data |-> Undefined, headers |-> NoHeader]
                  ELSE response
  /\ UNCHANGED <<hooks, args, resOp, method, url, callRet, thrown, reqData, final>>

\* the transport fails; the error interceptor runs and rejects
ClientExchangeFails(err, u) ==
  /\ callRet = "promise"
  /\ LET ei == ErrorInterceptor(err, hooks) IN
     /\ ExchangeFails(ei.rejects, u)
     /\ hookLog' = Append(hookLog, RequestInterceptor(hooks) \o ei.invoked)
  /\ rawHist' = Append(rawHist, Failure(err))
  /\ sent' = Append(sent, TransportConfig(method, args.opts))
  /\ UNCHANGED <<hooks, args, resOp, method, url, callRet, thrown, reqData, response,
                 final>>

ClientInit ==
  /\ pc = "idle"
  /\ options = [hasRetry |-> FALSE, retry |-> NoRetryOption]
  /\ retry = DEFAULT_RETRY
  /\ maxAttempts = Num(0)
  /\ attempt = 0
  /\ calls = 0
  /\ hist = <<>>
  /\ waits = <<>>
  /\ result = NoResult
  /\ aborted = FALSE
  /\ abortAt = NoAbort
  /\ uIn = NoUnit
  /\ uOut = NoOut
  /\ hooks \in HookConfigs
  /\ args = NoArgs
  /\ resOp = "none"
  /\ method = "none"
  /\ url = NoUrl
  /\ callRet = "none"
  /\ thrown = ""
  /\ reqData = Undefined
  /\ rawHist = <<>>
  /\ hookLog = <<>>
  /\ sent = <<>>
  /\ response = NoResponseYet
  /\ final = NoResult
  /\ peer = NoPeer

\* one call on a client built by withAuth(hooks) or resource(BaseUrl, hooks)
ClientNext ==
  \/ \E m \in PlainMethods, u \in UrlArgs, opts \in ClientOptions, co \in CallOptionsValues :
       \E payload \in PayloadsOf(m) : MethodCall(m, u, payload, opts, co) /\ UNCHANGED peer
  \/ \E u \in UrlArgs, data \in UploadArgs, fieldName \in FieldNames, opts \in ClientOptions,
        co \in CallOptionsValues :
       UploadCall(u, data, fieldName, opts, co) /\ UNCHANGED peer
  \/ \E u \in UrlArgs, opts \in ClientOptions, co \in CallOptionsValues :
       DownloadCall(u, opts, co) /\ UNCHANGED peer
  \/ \E op \in ResourceOps, opts \in ClientOptions, co \in CallOptionsValues :
       \E target \in TargetsOf(op), payload \in ResourcePayloads(op) :
         ResourceCall(op, target, payload, opts, co) /\ UNCHANGED peer
  \/ \E p \in ClientPayloads \cup {BlobPayload}, header \in DispositionHeaders :
       ClientExchangeSucceeds(p, header) /\ UNCHANGED peer
  \/ \E err \in ClientFailures \cup {AbortErr}, u \in RandomDraws :
       ClientExchangeFails(err, u) /\ UNCHANGED peer
  \/ DelayElapsed /\ UNCHANGED clientVars
  \/ Abort /\ UNCHANGED clientVars
  \/ DownloadResume /\ UNCHANGED peer

ClientSpec == ClientInit /\ [][ClientNext]_vars

(******************* two calls in flight on one client **********************)

\* the local state of the call being stepped: the locals of run (attempt,
\* retry, maxAttempts), of the surface method (its arguments, download's
\* response) and the histories kept for it
Suspended ==
  [pc |-> pc, options |-> options, retry |-> retry, maxAttempts |-> maxAttempts,
   attempt |-> attempt, calls |-> calls, hist |-> hist, waits |-> waits,
   result |-> result, args |-> args, resOp |-> resOp, method |-> method, url |-> url,
   callRet |-> callRet, thrown |-> thrown, reqData |-> reqData, rawHist |-> rawHist,
   hookLog |-> hookLog, sent |-> sent, response |-> response, final |-> final]

\* mutant: download's response kept in one variable shared by all calls
ResumedSharedResponse(saved) == [saved EXCEPT !.response = response]

\* the local state a call finds when the event loop returns to it
Resumed(saved) == saved

\* the event loop leaves the call that has reached an await and continues the
\* other one
Switch ==
  /\ peer' = Suspended
  /\ pc' = Resumed(peer).pc
  /\ options' = Resumed(peer).options
  /\ retry' = Resumed(peer).retry
  /\ maxAttempts' = Resumed(peer).maxAttempts
  /\ attempt' = Resumed(peer).attempt
  /\ calls' = Resumed(peer).calls
  /\ hist' = Resumed(peer).hist
  /\ waits' = Resumed(peer).waits
  /\ result' = Resumed(peer).result
  /\ args' = Resumed(peer).args
  /\ resOp' = Resumed(peer).resOp
  /\ method' = Resumed(peer).method
  /\ url' = Resumed(peer).url
  /\ callRet' = Resumed(peer).callRet
  /\ thrown' = Resumed(peer).thrown
  /\ reqData' = Resumed(peer).reqData
  /\ rawHist' = Resumed(peer).rawHist
  /\ hookLog' = Resumed(peer).hookLog
  /\ sent' = Resumed(peer).sent
  /\ response' = Resumed(peer).response
  /\ final' = Resumed(peer).final
  /\ UNCHANGED <<hooks, aborted, abortAt, unitVars>>

FilesUrl == UStr(<<"/", "f", "i", "l", "e", "s">>)

PairUrls == {UsersUrl, FilesUrl}

\* the server names the file behind one url and not the one behind the other
HeaderAt(u) == IF u = UsersUrl THEN QuotedHeader ELSE NoHeader

PairOptions ==
  {[hasRetry |-> FALSE, retry |-> NoRetryOption],
   [hasRetry |-> TRUE,
    retry |-> [retries |-> Num(0), baseDelayMs |-> Absent, maxDelayMs |-> Absent,
               jitter |-> AbsentBool]],
   [hasRetry |-> TRUE,
    retry |-> [retries |-> Absent, baseDelayMs |-> Num(100), maxDelayMs |-> Num(100),
               jitter |-> Bool(FALSE)]],
   [hasRetry |-> TRUE,
    retry |-> [retries |-> Num(MaxRetries), baseDelayMs |-> Num(100),
               maxDelayMs |-> Absent, jitter |-> Bool(FALSE)]]}

PairFailures == {NetworkErr, HttpErr(404, PlainBody), HttpErr(503, PlainBody)}

PairInit ==
  /\ ClientInit
  /\ hooks = NoHooks

\* two calls made on one client, their steps interleaved at the awaits
PairNext ==
  \/ \E u \in PairUrls, opts \in PairOptions :
       MethodCall("getOne", u, Undefined, opts, NoCallOptions) /\ UNCHANGED peer
  \/ \E u \in PairUrls, opts \in PairOptions :
       DownloadCall(u, opts, NoCallOptions) /\ UNCHANGED peer
  \/ ClientExchangeSucceeds(IF method = "download" THEN BlobPayload ELSE RawPayload,
                            IF method = "download" THEN HeaderAt(url) ELSE NoHeader)
       /\ UNCHANGED peer
  \/ \E err \in PairFailures, u \in RandomDraws : ClientExchangeFails(err, u) /\ UNCHANGED peer
  \/ DelayElapsed /\ UNCHANGED clientVars
  \/ DownloadResume /\ UNCHANGED peer
  \/ Switch

PairSpec == PairInit /\ [][PairNext]_vars

(********************** helpers under test, in isolation ********************)

BackoffPolicies ==
  {[retries |-> Num(1), baseDelayMs |-> Num(b), maxDelayMs |-> Num(m), jitter |-> Bool(j)] :
     b \in {100, 300}, m \in {100, 500, 2000}, j \in BOOLEAN}

BackoffInputs ==
  {[fn |-> "computeBackoff", att |-> a, policy |-> p, u |-> u] :
     a \in 1..MaxBackoffAttempt, p \in BackoffPolicies, u \in RandomDraws}

ApplyComputeBackoff ==
  /\ uIn.fn = "computeBackoff"
  /\ ~uOut.done
  /\ uOut' = [done |-> TRUE, value |-> computeBackoff(uIn.att, uIn.policy, uIn.u)]
  /\ UNCHANGED <<runVars, clientVars, uIn>>

UnitStatuses == {200, 302, 400, 401, 403, 404, 499, 500, 503, 599, 600}

ErrorOnlyBody == Obj([error |-> "bad input"])

EmptyMessageBody == Obj([message |-> "", error |-> "fallback"])

DetailBody == Obj([message |-> "server says no", detail |-> "row 7"])

TrueStatusErrBody == Obj([status |-> TRUE, data |-> Str("Z")])

BothBody == Obj([message |-> "primary", error |-> "secondary"])

\* a body with fields named like the ones normalizeError attaches
CodeBody == Obj([message |-> "quota", code |-> "E_QUOTA", statusCode |-> 418])

UnitBodies ==
  {PlainBody, CanonicalErrBody, CanonicalErrBodyNoMessage, ErrorOnlyBody,
   EmptyMessageBody, DetailBody, TrueStatusErrBody, BothBody, CodeBody, Str("<html>"),
   Str(""), Undefined, Obj(Empty)}

\* a value thrown inside the exchange that carries no message (throw null)
ThrownNothing == AxiosErr(NoResponse, "", "")

UnitErrs ==
  {NetworkErr, AbortErr, ThrownErr, ThrownNothing}
    \cup {HttpErr(s, PlainBody) : s \in UnitStatuses}
    \cup {HttpErr(s, b) : s \in {404, 503}, b \in UnitBodies}
    \cup {AxiosErr(Response(500, b), "", "") : b \in UnitBodies}

ExtraKeyPayload == Obj([status |-> TRUE, data |-> Str("X"), id |-> 1])

StatusOnlyPayload == Obj([status |-> TRUE])

UnitPayloads ==
  Payloads \cup {ExtraKeyPayload, StatusOnlyPayload, Obj(Empty), Str("text"), Str(""),
                 Undefined}

RetriableInputs == {[fn |-> "isRetriable", err |-> e] : e \in UnitErrs}

NormalizeSuccessInputs == {[fn |-> "normalizeSuccess", payload |-> q] : q \in UnitPayloads}

NormalizeErrorInputs == {[fn |-> "normalizeError", err |-> e] : e \in UnitErrs}

ApplyIsRetriable ==
  /\ uIn.fn = "isRetriable"
  /\ ~uOut.done
  /\ uOut' = [done |-> TRUE, value |-> isRetriable(uIn.err)]
  /\ UNCHANGED <<runVars, clientVars, uIn>>

ApplyNormalizeSuccess ==
  /\ uIn.fn = "normalizeSuccess"
  /\ ~uOut.done
  /\ uOut' = [done |-> TRUE, value |-> normalizeSuccess(uIn.payload)]
  /\ UNCHANGED <<runVars, clientVars, uIn>>

ApplyNormalizeError ==
  /\ uIn.fn = "normalizeError"
  /\ ~uOut.done
  /\ uOut' = [done |-> TRUE, value |-> normalizeError(uIn.err)]
  /\ UNCHANGED <<runVars, clientVars, uIn>>

UnitInit ==
  /\ pc = "idle"
  /\ options = [hasRetry |-> FALSE, retry |-> NoRetryOption]
  /\ retry = DEFAULT_RETRY
  /\ maxAttempts = Num(0)
  /\ attempt = 0
  /\ calls = 0
  /\ hist = <<>>
  /\ waits = <<>>
  /\ result = NoResult
  /\ aborted = FALSE
  /\ abortAt = NoAbort
  /\ uIn \in BackoffInputs \cup RetriableInputs \cup NormalizeSuccessInputs
              \cup NormalizeErrorInputs
  /\ ClientUnused
  /\ uOut = NoOut

UnitNext ==
  \/ ApplyComputeBackoff
  \/ ApplyIsRetriable
  \/ ApplyNormalizeSuccess
  \/ ApplyNormalizeError

UnitSpec == UnitInit /\ [][UnitNext]_vars

(******************************* claims ************************************)

IsResult(v) ==
  /\ IsObject(v)
  /\ DOMAIN v.fields = {"status", "data"}
  /\ v.fields.status \in BOOLEAN

IsFailure(r) == r.kind = "resolved" /\ IsResult(r.value) /\ r.value.fields.status = FALSE

IsSuccess(r) == r.kind = "resolved" /\ IsResult(r.value) /\ r.value.fields.status = TRUE

NumericRetries == retry.retries.t = "num"

Started == pc # "idle"

IsFail(o) == o.kind = "failure"

NoStatus(o) == IsFail(o) /\ Status(o.err) = 0

ServerError(o) == IsFail(o) /\ Status(o.err) >= 500 /\ Status(o.err) < 600

ClientError(o) == IsFail(o) /\ Status(o.err) >= 400 /\ Status(o.err) <= 499

\* C1: for every exchange outcome sequence and every retry policy, malformed
\* ones included, the promise of run resolves to a Result {status, data} and
\* is never rejected.
C1_NeverRejects ==
  /\ result.kind # "rejected"
  /\ pc # "rejected"
  /\ (pc = "done" => result.kind = "resolved" /\ IsResult(result.value))

C3_SuccessReturnsImmediately ==
  \A i \in 1..Len(hist) :
    hist[i].kind = "success" =>
      /\ i = Len(hist)
      /\ pc = "done"
      /\ IsSuccess(result)
      /\ \/ result.value = hist[i].payload
         \/ result.value.fields.data = hist[i].payload
      /\ calls = i
      /\ Len(waits) = i - 1

C3_Witness ==
  /\ pc = "done"
  /\ retry.retries = Num(2)
  /\ hist = <<Success(RawPayload)>>
  /\ calls = 1
  /\ waits = <<>>

AllNoStatus == Len(hist) > 0 /\ \A i \in 1..Len(hist) : NoStatus(hist[i])

C5_ClientErrorNotRetried ==
  \A i \in 1..Len(hist) :
    ClientError(hist[i]) =>
      /\ ~isRetriable(hist[i].err)
      /\ i = Len(hist)
      /\ pc = "done"
      /\ IsFailure(result)
      /\ calls = i
      /\ Len(waits) = i - 1

C5_Witness ==
  /\ pc = "done"
  /\ retry.retries = Num(2)
  /\ hist = <<Failure(HttpErr(404, PlainBody))>>
  /\ calls = 1
  /\ waits = <<>>
  /\ IsFailure(result)

\* C6: when the cancellation signal fired before the exchange started, the
\* abort failure is not retried: for any numeric retries, the default included,
\* the call makes 1 attempt, awaits no backoff and returns Failure.
C6_AbortBeforeStartNotRetried ==
  (abortAt.phase = "idle" /\ Started /\ NumericRetries) =>
    /\ calls <= 1
    /\ waits = <<>>
    /\ (pc = "done" => calls = 1 /\ IsFailure(result))

\* C7: when the signal fires while run is suspended in a backoff wait, the
\* call resolves to Failure without completing the wait and without invoking
\* another exchange.
C7_BackoffWaitCancellable ==
  abortAt.phase = "wait" =>
    /\ calls = abortAt.calls
    /\ pc # "exchange"

\* C8: a backoff wait happens only between two attempts: every wait is followed
\* by another exchange, none follows the final attempt, and in every completed
\* call the number of waits is the number of attempts minus one.
C8_WaitsOnlyBetweenAttempts ==
  /\ (pc = "wait" => LessThan(attempt, maxAttempts) /\ Len(waits) = calls)
  /\ (pc = "exchange" => Len(waits) = calls - 1)
  /\ (pc = "done" => Len(waits) = calls - 1)

ServerErrorsThenSuccess ==
  /\ pc = "done"
  /\ NumericRetries
  /\ ~retry.jitter.b
  /\ Len(hist) > 0
  /\ Len(hist) - 1 <= retry.retries.v
  /\ hist[Len(hist)].kind = "success"
  /\ \A i \in 1..(Len(hist) - 1) : ServerError(hist[i])

ExpectedWaits(k) ==
  [i \in 1..k |-> Min(retry.maxDelayMs.v, retry.baseDelayMs.v * 2 ^ (i - 1))]

\* C9 as stated: with jitter disabled and retries = r, k <= r failures with a
\* 5xx status followed by a success with payload P give exactly k+1 attempts,
\* k waits, the i-th being min(maxDelayMs, baseDelayMs * 2^(i-1)), and
\* Success with data P.
C9_RetryThenSuccessWrapsPayload ==
  ServerErrorsThenSuccess =>
    LET k == Len(hist) - 1 IN
    /\ calls = k + 1
    /\ waits = ExpectedWaits(k)
    /\ result = Resolved(ApiResponse(TRUE, hist[k + 1].payload))

\* C9 as amended: the same attempts and waits, and the call returns Success
\* with data P, or P itself when P is already shaped {status: true, data}.
C9_RetryThenSuccess ==
  ServerErrorsThenSuccess =>
    LET k == Len(hist) - 1
        P == hist[k + 1].payload
    IN /\ calls = k + 1
       /\ waits = ExpectedWaits(k)
       /\ IsSuccess(result)
       /\ IF HasKey(P, "status") /\ HasKey(P, "data") /\ P.fields.status = TRUE
          THEN result.value = P
          ELSE result.value = ApiResponse(TRUE, P)

C9_Witness ==
  /\ pc = "done"
  /\ retry = [retries |-> Num(2), baseDelayMs |-> Num(100), maxDelayMs |-> Num(100),
              jitter |-> Bool(FALSE)]
  /\ hist = <<Failure(HttpErr(503, PlainBody)), Failure(HttpErr(503, PlainBody)),
              Success(RawPayload)>>
  /\ calls = 3
  /\ waits = <<100, 100>>
  /\ result = Resolved(ApiResponse(TRUE, RawPayload))

BackoffTable == <<300, 600, 1200, 2000, 2000>>

BackoffApplied == uIn.fn = "computeBackoff" /\ uOut.done

\* C10: with jitter disabled computeBackoff(attempt, policy) is the smaller of
\* maxDelayMs and baseDelayMs doubled attempt-1 times, for every attempt >= 1;
\* for baseDelayMs = 300 and maxDelayMs = 2000 the values for attempt 1..5 are
\* 300, 600, 1200, 2000, 2000.
C10_BackoffWithoutJitter ==
  (BackoffApplied /\ ~uIn.policy.jitter.b) =>
    LET b == uIn.policy.baseDelayMs.v
        m == uIn.policy.maxDelayMs.v
        doubled[i \in 1..uIn.att] == IF i = 1 THEN b ELSE 2 * doubled[i - 1]
    IN /\ uOut.value = Min(m, doubled[uIn.att])
       /\ (b = 300 /\ m = 2000 /\ uIn.att <= 5) => uOut.value = BackoffTable[uIn.att]

C10_Witness ==
  /\ BackoffApplied
  /\ ~uIn.policy.jitter.b
  /\ uIn.policy.baseDelayMs = Num(300)
  /\ uIn.policy.maxDelayMs = Num(2000)
  /\ uIn.att = 4
  /\ uOut.value = 2000

RetriableApplied == uIn.fn = "isRetriable" /\ uOut.done

\* C12: isRetriable(failure) is true exactly when the failure carries no HTTP
\* status or its status is in [500, 600); for every other status it is false.
C12_RetriableIffNoStatusOr5xx ==
  RetriableApplied =>
    (uOut.value <=>
       \/ ~uIn.err.response.present
       \/ uIn.err.response.status \in 500..599)

C12_Witness ==
  /\ RetriableApplied
  /\ uIn.err.response.present
  /\ uIn.err.response.status = 401
  /\ uOut.value = FALSE

IsCanonical(v, st) == HasKey(v, "status") /\ HasKey(v, "data") /\ v.fields.status = st

\* C13: normalizeSuccess returns a payload already shaped {status: true, data}
\* as it is, not wrapped again, and wraps any other payload P as
\* {status: true, data: P}; normalizeError returns an error body already
\* shaped {status: false, data} as it is.
C13_NormalizationIdempotent ==
  /\ (uIn.fn = "normalizeSuccess" /\ uOut.done) =>
       /\ IsResult(uOut.value) \/ uOut.value = uIn.payload
       /\ uOut.value.fields.status = TRUE
       /\ IF IsCanonical(uIn.payload, TRUE)
          THEN uOut.value = uIn.payload
          ELSE /\ uOut.value.fields.data = uIn.payload
               /\ DOMAIN uOut.value.fields = {"status", "data"}
  /\ (uIn.fn = "normalizeError" /\ uOut.done /\ uIn.err.response.present
        /\ IsCanonical(uIn.err.response.data, FALSE)) =>
       uOut.value = uIn.err.response.data

C13_Witness ==
  /\ uIn.fn = "normalizeSuccess"
  /\ uOut.done
  /\ uIn.payload = CanonicalPayload
  /\ uOut.value = CanonicalPayload

\* C14: every Failure returned by run, for any failure outcome of the
\* transport, an error body already shaped {status: false, data} included,
\* carries error data whose message field is present and a non-empty string.
C14_FailureHasMessage ==
  (pc = "done" /\ IsFailure(result)) =>
    /\ HasKey(result.value.fields.data, "message")
    /\ result.value.fields.data.fields.message # ""

\* an empty string or one of white space only
IsBlankPath(u) ==
  u.type = "string" /\ \A i \in 1..Len(u.chars) : u.chars[i] \in Whitespace

\* the call threw at call time and nothing was sent
FailedFast == callRet = "threw" /\ thrown # "" /\ calls = 0 /\ rawHist = <<>>

\* C15: every method of the surface (getMany, getOne, post, put, patch, remove,
\* upload, download) called with an empty or blank path throws a descriptive
\* error synchronously, not through the returned promise, and attempts no
\* exchange.
C15_BlankPathThrowsSynchronously ==
  (method # "none" /\ IsBlankPath(url)) => FailedFast

\* an id that is null, undefined or the empty string
MissingId(id) ==
  id.type \in {"null", "undefined"} \/ (id.type = "string" /\ id.chars = <<>>)

\* C16: get, update, patch and remove of a resource called with an id that is
\* null, undefined or "", and action called with an empty or blank subpath,
\* throw before any method of the surface is dispatched and before any exchange.
C16_ResourceValidatesBeforeDispatch ==
  (\/ resOp \in {"get", "update", "patch", "remove"} /\ MissingId(args.target)
   \/ resOp = "action" /\ IsBlankPath(args.target))
    => (FailedFast /\ method = "none" /\ pc = "idle")

C16_Witness ==
  /\ resOp = "update"
  /\ args.target = UStr(<<>>)
  /\ callRet = "threw"
  /\ thrown = "Resource ID must be provided and non-empty"

\* some hook invoked during the call threw
HookThrew ==
  \E i \in 1..Len(hookLog) : \E j \in 1..Len(hookLog[i]) : hooks[hookLog[i][j]] = "throws"

\* the Result run returns for a last outcome of the transport
ResultOf(outcome) ==
  IF outcome.kind = "success"
  THEN Resolved(normalizeSuccess(outcome.payload))
  ELSE Resolved(normalizeError(outcome.err))

\* C17: an exception thrown inside a hook (onRequest, onResponse, onError,
\* onAuthError) never changes the Result of the call: the retry loop is handed
\* exactly the outcomes of the transport, so attempts and Result are those of
\* the same outcome sequence with hooks that do not throw.
C17_HookExceptionsNeverChangeResult ==
  HookThrew =>
    /\ hist = rawHist
    /\ calls = Len(rawHist) + (IF pc = "exchange" THEN 1 ELSE 0)
    /\ pc = "done" => result = ResultOf(rawHist[Len(rawHist)])
    /\ pc # "rejected"

C17_Witness ==
  /\ HookThrew
  /\ pc = "done"
  /\ Len(rawHist) = 2
  /\ rawHist[1] = Failure(HttpErr(503, PlainBody))
  /\ rawHist[2] = Failure(HttpErr(401, PlainBody))
  /\ result = Resolved(normalizeError(HttpErr(401, PlainBody)))

\* hook name h was invoked around the i-th exchange
Invoked(h, i) == \E j \in 1..Len(hookLog[i]) : hookLog[i][j] = h

\* C18: onError is invoked on every failed exchange, also on a 401 or 403 for
\* which onAuthError throws; onAuthError is invoked for a failed exchange
\* exactly when its status is 401 or 403.
C18_ErrorHookOnEveryFailure ==
  \A i \in 1..Len(rawHist) :
    rawHist[i].kind = "failure" =>
      /\ hooks.onError # "none" => Invoked("onError", i)
      /\ hooks.onAuthError # "none" =>
           (Invoked("onAuthError", i) <=> Status(rawHist[i].err) \in {401, 403})

\* the keys of a mapping whose value is neither null nor undefined, in order
PresentKeys(entries) ==
  LET kept == SelectSeq(entries, LAMBDA e : e[2].type \notin {"null", "undefined"}) IN
  [i \in 1..Len(kept) |-> kept[i][1]]

FieldNamesOf(form) == [i \in 1..Len(form.entries) |-> form.entries[i].name]

\* C19: upload given a plain key-value mapping sends one multipart field per
\* key whose value is neither null nor undefined, the value stringified, and
\* no field for a null or undefined value: {a:1,b:null,c:"x"} gives a and c.
C19_UploadMappingFields ==
  (method = "upload" /\ args.data.type = "object" /\ callRet = "promise") =>
    /\ reqData.type = "formdata"
    /\ FieldNamesOf(reqData) = PresentKeys(args.data.entries)
    /\ \A i \in 1..Len(reqData.entries) : reqData.entries[i].kind = "string"
    /\ args.data = SpecMapping =>
         reqData.entries = <<Field("a", "string", "1"), Field("c", "string", "x")>>
    /\ args.data = MixedMapping =>
         reqData.entries = <<Field("n", "string", "-12"), Field("e", "string", ""),
                             Field("t", "string", "true"),
                             Field("o", "string", "[object Object]")>>

C19_Witness ==
  /\ method = "upload"
  /\ args.data = SpecMapping
  /\ pc = "done"
  /\ calls = 1
  /\ FieldNamesOf(reqData) = <<"a", "c">>

ReportPdf == <<"r", "e", "p", "o", "r", "t", ".", "p", "d", "f">>

\* the file name each content-disposition header of DispositionHeaders names
NamedIn(header) ==
  IF header \in {QuotedHeader, UnquotedHeader, ParamsAfterHeader}
  THEN Filename(ReportPdf)
  ELSE NoFilename

\* C20: download returns Success{blob, filename} with filename the name in the
\* successful response's content-disposition header (filename=..., quoted or
\* not, quotes removed); with no header or a failed extraction it still returns
\* Success, filename undefined; a Failure of the retry wrapper is returned
\* unchanged.
C20_DownloadFilename ==
  (method = "download" /\ pc = "done" /\ final # NoResult) =>
    IF IsFailure(result)
    THEN final = result
    ELSE /\ response.assigned
         /\ rawHist[Len(rawHist)] = Success(BlobPayload)
         /\ final = Resolved(ApiResponse(TRUE,
                      Obj([blob |-> BlobPayload, filename |-> NamedIn(response.headers)])))

C20_Witness ==
  /\ method = "download"
  /\ Len(rawHist) = 2
  /\ rawHist[1] = Failure(HttpErr(503, PlainBody))
  /\ response.headers = QuotedHeader
  /\ final = Resolved(ApiResponse(TRUE,
               Obj([blob |-> BlobPayload, filename |-> Filename(ReportPdf)])))

SynthesizedFailure ==
  /\ uIn.fn = "normalizeError"
  /\ uOut.done
  /\ ~(uIn.err.response.present /\ IsCanonical(uIn.err.response.data, FALSE))

\* field k of the failure body, "" when there is none
BodyText(k) ==
  IF uIn.err.response.present /\ HasKey(uIn.err.response.data, k)
  THEN uIn.err.response.data.fields[k]
  ELSE ""

\* C23: for a failure body that is not already canonical, the Failure's message
\* is the body's message field, else the body's error field, else the
\* transport-level error message, else "Request failed"; a lower source is used
\* only when every higher one is absent or empty.
C23_MessagePriority ==
  SynthesizedFailure =>
    LET message == uOut.value.fields.data.fields.message IN
    /\ BodyText("message") # "" => message = BodyText("message")
    /\ (BodyText("message") = "" /\ BodyText("error") # "") => message = BodyText("error")
    /\ (BodyText("message") = "" /\ BodyText("error") = "" /\ uIn.err.message # "") =>
         message = uIn.err.message
    /\ (BodyText("message") = "" /\ BodyText("error") = "" /\ uIn.err.message = "") =>
         message = "Request failed"

C23_Witness ==
  /\ SynthesizedFailure
  /\ uIn.err = HttpErr(404, BothBody)
  /\ uOut.value.fields.data.fields.message = "primary"

\* the fields of the structured error body; none for a body that is no object
BodyFields ==
  IF uIn.err.response.present /\ IsObject(uIn.err.response.data)
  THEN uIn.err.response.data.fields
  ELSE Empty

HasHttpStatus == uIn.err.response.present /\ uIn.err.response.status # 0

HasTransportCode == uIn.err.code # ""

\* C24 as stated: for a non-canonical failure the error data contains every
\* field of the structured error body, the synthesized message overriding a
\* body field named message; statusCode is present exactly when the failure
\* carries an HTTP status and then equals it; code is present exactly when the
\* failure carries a transport-level code and then equals it.
C24_MergedFieldsExactly ==
  SynthesizedFailure =>
    LET d == uOut.value.fields.data.fields IN
    /\ DOMAIN BodyFields \subseteq DOMAIN d
    /\ \A k \in DOMAIN BodyFields \ {"message", "statusCode", "code"} : d[k] = BodyFields[k]
    /\ "message" \in DOMAIN d
    /\ "statusCode" \in DOMAIN d <=> HasHttpStatus
    /\ HasHttpStatus => d.statusCode = uIn.err.response.status
    /\ "code" \in DOMAIN d <=> HasTransportCode
    /\ HasTransportCode => d.code = uIn.err.code

\* C24 amended: statusCode and code equal the HTTP status and the transport
\* code whenever the failure carries one; when it carries none, the field is
\* present only if the body has a field of that name, with the body's value.
C24_MergedFields ==
  SynthesizedFailure =>
    LET d == uOut.value.fields.data.fields IN
    /\ DOMAIN BodyFields \subseteq DOMAIN d
    /\ \A k \in DOMAIN BodyFields \ {"message", "statusCode", "code"} : d[k] = BodyFields[k]
    /\ "message" \in DOMAIN d
    /\ HasHttpStatus => ("statusCode" \in DOMAIN d /\ d.statusCode = uIn.err.response.status)
    /\ ~HasHttpStatus => "statusCode" \notin DOMAIN d
    /\ HasTransportCode => ("code" \in DOMAIN d /\ d.code = uIn.err.code)
    /\ ~HasTransportCode =>
         /\ "code" \in DOMAIN d <=> "code" \in DOMAIN BodyFields
         /\ "code" \in DOMAIN d => d.code = BodyFields.code

C24_Witness ==
  /\ SynthesizedFailure
  /\ uIn.err = HttpErr(404, CodeBody)
  /\ uOut.value.fields.data.fields =
       [message |-> "quota", code |-> "ERR_BAD_REQUEST", statusCode |-> 404]

\* C26: when retries is zero or negative the call makes exactly one exchange
\* attempt and no backoff wait, whatever the failure, and returns the
\* normalized Failure of that single attempt (maxAttempts = 1 + max(0, retries)
\* = 1).
C26_NoRetriesOneAttempt ==
  (Started /\ NumericRetries /\ retry.retries.v <= 0) =>
    /\ maxAttempts = Num(1)
    /\ calls = 1
    /\ waits = <<>>
    /\ pc \in {"exchange", "done"}
    /\ (hist # <<>> /\ hist[1].kind = "failure") =>
         /\ pc = "done"
         /\ Len(hist) = 1
         /\ result = Resolved(normalizeError(hist[1].err))

C26_Witness ==
  /\ retry.retries = Num(0 - 1)
  /\ hist = <<Failure(HttpErr(503, PlainBody))>>
  /\ pc = "done"
  /\ calls = 1
  /\ result = Resolved(normalizeError(HttpErr(503, PlainBody)))

\* exchanges of the call started and not yet settled
InFlight == calls - Len(hist)

\* C28: within one call attempts are strictly sequential: at most one exchange
\* of the call is in flight at any time, and an attempt starts only after the
\* previous attempt has failed and the backoff wait that follows it has
\* completed.
C28_AttemptsSequential ==
  [][/\ InFlight' \in {0, 1}
     /\ calls' # calls =>
          /\ calls' = calls + 1
          /\ InFlight = 0
          /\ pc \in {"idle", "wait"}
          /\ pc' = "exchange"
          /\ calls > 0 =>
               /\ pc = "wait"
               /\ hist[calls].kind = "failure"
               /\ Len(waits) = calls]_vars

C28_Witness ==
  /\ pc = "exchange"
  /\ calls = 3
  /\ Len(hist) = 2
  /\ Len(waits) = 2
  /\ InFlight = 1

\* C29: every Result returned by run is preceded by at least one exchange
\* invocation, for every retry option the caller can pass (retries undefined
\* or not a number included): the defensive Failure "Unexpected client error"
\* is never returned.
C29_ResultFollowsAnExchange ==
  pc = "done" =>
    /\ calls >= 1
    /\ hist # <<>>
    /\ result # Resolved(UnexpectedClientError)

\* the call ended on a failed attempt
EndedOnFailure == pc = "done" /\ hist # <<>> /\ hist[Len(hist)].kind = "failure"

\* C30: a call that ends in Failure after several attempts returns the Failure
\* normalized from the failure of the last attempt made, not from an earlier
\* one: statusCode and code are those of the final attempt (503 then 404 with
\* retries = 2 gives 2 attempts and statusCode 404).
C30_FailureOfLastAttempt ==
  EndedOnFailure =>
    LET last == hist[Len(hist)].err
        data == result.value.fields.data
    IN /\ result = Resolved(normalizeError(last))
       /\ calls = Len(hist)
       /\ HasKey(data, "statusCode") => data.fields.statusCode = Status(last)
       /\ HasKey(data, "code") => data.fields.code = last.code
       /\ (Len(hist) = 2 /\ hist[1].err = HttpErr(503, PlainBody)
             /\ last = HttpErr(404, PlainBody)) =>
            /\ calls = 2
            /\ data.fields.statusCode = 404
            /\ data.fields.code = "ERR_BAD_REQUEST"

C30_Witness ==
  /\ EndedOnFailure
  /\ retry.retries = Num(2)
  /\ hist = <<Failure(HttpErr(503, PlainBody)), Failure(HttpErr(404, PlainBody))>>
  /\ calls = 2
  /\ result.value.fields.data.fields.statusCode = 404

\* C25: every method of the surface passes the caller's per-call options (query
\* parameters, headers, cancellation signal, timeout, response-type hint) to
\* the transport on every attempt of the call, the same signal for all
\* attempts; in particular query parameters given to post, put and patch reach
\* the transport. (download asks for a blob whatever the hint.)
C25_PerCallOptionsReachTransport ==
  /\ Len(sent) = Len(rawHist)
  /\ \A i \in 1..Len(sent) :
       /\ sent[i].params = args.opts.params
       /\ args.opts.headers \subseteq sent[i].headers
       /\ sent[i].signal = args.opts.signal
       /\ sent[i].timeout = args.opts.timeout
       /\ method # "download" => sent[i].responseType = args.opts.responseType

\* the two calls made on the client
BothCalls == {Suspended, peer}

\* the retry defaults as the claim states them
StatedDefaults ==
  [retries |-> Num(1), baseDelayMs |-> Num(300), maxDelayMs |-> Num(2000),
   jitter |-> Bool(TRUE)]

Supplied(c, k) == c.options.hasRetry /\ c.options.retry[k].t # "absent"

\* every exchange of call c failed with a retriable failure
OnlyRetriableFailures(c) ==
  /\ c.hist # <<>>
  /\ \A i \in 1..Len(c.hist) : NoStatus(c.hist[i]) \/ ServerError(c.hist[i])

FailuresOf(c) == Len(SelectSeq(c.hist, IsFail))

\* the state of call c is the one its own policy and its own exchange outcomes
\* determine
OwnOutcomesOnly(c) ==
  /\ c.hist = c.rawHist
  /\ c.attempt = FailuresOf(c)
  /\ c.calls = Len(c.hist) + (IF c.pc = "exchange" THEN 1 ELSE 0)
  /\ c.pc # "idle" => c.calls <= 1 + c.retry.retries.v
  /\ Len(c.waits) = IF c.pc = "done" /\ IsFail(c.hist[Len(c.hist)])
                    THEN FailuresOf(c) - 1 ELSE FailuresOf(c)
  /\ \A i \in 1..Len(c.waits) :
       LET exp == Min(c.retry.maxDelayMs.v, c.retry.baseDelayMs.v * 2 ^ (i - 1)) IN
       IF c.retry.jitter.b
       THEN 10 * c.waits[i] >= 7 * exp - 10 /\ c.waits[i] <= exp
       ELSE c.waits[i] = exp
  /\ c.pc = "done" => c.result = ResultOf(c.rawHist[Len(c.rawHist)])
  /\ c.response.assigned =>
       c.response = [assigned |-> TRUE, data |-> BlobPayload, headers |-> HeaderAt(c.url)]
  /\ (c.method = "download" /\ c.final # NoResult) =>
       c.final = IF IsFail(c.rawHist[Len(c.rawHist)])
                 THEN c.result
                 ELSE Resolved(ApiResponse(TRUE,
                        Obj([blob |-> BlobPayload, filename |-> NamedIn(HeaderAt(c.url))])))

\* C27: for two calls in flight concurrently on one client, under every
\* interleaving of their exchanges and backoff waits, each call's attempt
\* count, waits and final Result depend only on that call's own policy and
\* exchange outcomes; no call reads or writes the other call's attempt counter
\* or captured response.
C27_ConcurrentCallsIndependent ==
  /\ [](\A c \in BothCalls : OwnOutcomesOnly(c))
  /\ [][\/ peer' = peer
        \/ peer' = Suspended /\ Suspended' = peer]_vars

C27_Witness ==
  /\ method = "download"
  /\ url = UsersUrl
  /\ Len(rawHist) = 2
  /\ final = Resolved(ApiResponse(TRUE,
               Obj([blob |-> BlobPayload, filename |-> Filename(ReportPdf)])))
  /\ peer.method = "download"
  /\ peer.url = FilesUrl
  /\ peer.response.assigned
  /\ peer.final = NoResult
  /\ Len(peer.waits) = 1

\* C31: every run call eventually returns a Result, provided retries is a
\* finite number and each exchange and each backoff wait completes: under any
\* sequence of failures the loop cannot go on forever.
C31_RunTerminates ==
  (Started /\ NumericRetries) ~> (pc = "done" /\ result.kind = "resolved" /\ IsResult(result.value))

C31_Witness ==
  /\ pc = "done"
  /\ retry.retries = Num(MaxRetries)
  /\ calls = MaxRetries + 1
  /\ Len(waits) = MaxRetries
  /\ \A i \in 1..Len(hist) : IsFail(hist[i])
  /\ IsFailure(result)

\* the response a download has captured is the one of its own successful
\* exchange, and the returned blob and filename are taken from it
CapturedFromSuccess(c) ==
  c.method = "download" =>
    LET n == Len(c.rawHist) IN
    /\ c.response.assigned <=> (n > 0 /\ ~IsFail(c.rawHist[n]))
    /\ c.response.assigned =>
         /\ c.response.data = c.rawHist[n].payload
         /\ c.response.headers = HeaderAt(c.url)
         /\ \A i \in 1..(n - 1) : IsFail(c.rawHist[i])
    /\ IsSuccess(c.final) =>
         /\ c.response.assigned
         /\ c.final.value.fields.data.fields.blob = c.response.data
         /\ c.final.value.fields.data.fields.filename = ExtractFilename(c.response.headers)

\* C32: in download the filename is extracted from the headers of the same
\* exchange attempt whose payload is returned as blob: after failed attempts
\* followed by a success the captured response is the successful one, never a
\* response of an earlier attempt or of another concurrent download call.
C32_CapturedResponseIsOwnSuccess == \A c \in BothCalls : CapturedFromSuccess(c)

C32_Witness ==
  /\ method = "download"
  /\ url = FilesUrl
  /\ Len(rawHist) = MaxRetries + 1
  /\ \A i \in 1..MaxRetries : IsFail(rawHist[i])
  /\ response.headers = NoHeader
  /\ final = Resolved(ApiResponse(TRUE, Obj([blob |-> BlobPayload, filename |-> NoFilename])))
  /\ peer.method = "download"
  /\ peer.url = UsersUrl
  /\ Len(peer.rawHist) = 2
  /\ IsFail(peer.rawHist[1])
  /\ peer.response.headers = QuotedHeader
  /\ peer.final = Resolved(ApiResponse(TRUE,
                    Obj([blob |-> BlobPayload, filename |-> Filename(ReportPdf)])))

=============================================================================
